---- MODULE Spec2Model ----
(***************************************************************************)
(* A model of the Aqua Bridge back end and client facade.                  *)
(*                                                                         *)
(*   src/api-backend/server.js     OTP endpoints over the in-memory        *)
(*                                 otpStore, market prices and harvest     *)
(*                                 requests over the document store        *)
(*   src/twilio-backend/server.js  (second half, services/apiService.ts)   *)
(*                                 the client facade: tryFetch and the     *)
(*                                 local-storage fallbacks                 *)
(*   src/components/LoginScreen.tsx the login screen: its state, its       *)
(*                                 handlers and its two requests           *)
(*                                                                         *)
(* Optional JavaScript values (undefined / null / a missing Map key or     *)
(* storage key) are modelled as sequences of length 0 or 1: None is <<>>,  *)
(* Some(x) is <<x>>.                                                       *)
(***************************************************************************)
EXTENDS Integers, Sequences, FiniteSets, TLC

\* ------------------------------------------------------------------ bounds

\* Clock ticks a behaviour may take (each tick is 1 ms or one whole TTL).
MaxTicks == 2
\* Requests the OTP server handles in a behaviour.
MaxReqs == 3
\* /send-otp requests awaiting the SMS provider at one time.
MaxInflight == 1
\* The same, where sends race each other.
MaxRacing == 2

\* ------------------------------------------------------------- optionals

None == <<>>
Some(x) == <<x>>
IsSome(o) == Len(o) = 1
Get(o) == o[1]

\* A JavaScript Map as a function whose domain is the set of keys present.
EmptyMap == [k \in {} |-> None]
MapHas(m, k) == k \in DOMAIN m
MapSet(m, k, v) == [x \in (DOMAIN m) \cup {k} |-> IF x = k THEN v ELSE m[x]]
MapDelete(m, k) == [x \in (DOMAIN m) \ {k} |-> m[x]]

\* ---------------------------------------------------------------- inputs

\* Phone numbers a request body can carry; "" stands for a missing or empty
\* phone field (falsy in JavaScript).
Phones == {"+911", "+912"}
PhoneInputs == Phones \cup {""}
\* genOtp() draws a 6-digit string; two of them stand for the 900000.
Codes == {"100000", "999999"}
\* Codes a /verify-otp body can carry: "" stands for a missing code.
CodeInputs == Codes \cup {""}

VARIABLES
    otpStore,          \* Map phone -> [code, expiresAt]
    now,               \* Date.now(), in ms
    twilioConfigured,  \* twilioClient !== null
    inflight,          \* /send-otp handlers suspended at await messages.create
    nReq,              \* requests received so far
    lastResp,          \* the last HTTP response written
    sendCount,         \* per phone: store writes made by /send-otp
    latest,            \* per phone: the [code, at] of the latest store write
    prevCode,          \* per phone: the code of the store write before it
    delivery,          \* per phone: what became of the latest send's SMS
    okCount,           \* per phone: /verify-otp requests answered success
    mismatches,        \* per phone: 'Invalid code' answers since the latest send
    removedBy          \* per phone: what removed the latest send's entry

otpVars == <<otpStore, now, twilioConfigured, inflight, nReq, lastResp,
             sendCount, latest, prevCode, delivery, okCount,
             mismatches, removedBy>>

VARIABLES
    viteApiBaseUrl,    \* import.meta.env.VITE_API_BASE_URL ("" when unset)
    viteApiBase,       \* import.meta.env.VITE_API_BASE ("" when unset)
    appMeta,           \* server: the value of app_meta's market_status document, if any
    pricesColl,        \* server: the market_prices collection, in insertion order
    harvestColl,       \* server: the harvest_requests collection, in insertion order
    localStorage,      \* browser: [harvest, prices, status], each None or Some(item)
    nCalls,            \* facade calls made so far
    lastCall           \* what the last facade call did and resolved to

storeVars == <<viteApiBaseUrl, viteApiBase, appMeta, pricesColl, harvestColl,
               localStorage, nCalls, lastCall>>

VARIABLES
    patching,          \* server: PATCH /market-prices handlers between findOne and updateOne
    nPatch,            \* PATCH /market-prices requests received so far
    lastPatch          \* the last PATCH /market-prices response and the write behind it

patchVars == <<patching, nPatch, lastPatch>>

VARIABLES
    phoneField,        \* LoginScreen: the phone state (the text of the phone input)
    otp,               \* LoginScreen: the otp state (the text of the code input)
    step,              \* LoginScreen: 'enterPhone' or 'enterOtp'
    isSending,         \* LoginScreen: a send-otp request is awaited
    isVerifying,       \* LoginScreen: a verify-otp request is awaited
    message,           \* LoginScreen: the message shown, if any
    sendReq,           \* the send-otp request in flight, if any
    verifyReq,         \* the verify-otp request in flight, if any
    onLoginSuccess,    \* the arguments of the onLoginSuccess calls made, in order
    lastSettled,       \* the request that settled last and the answer it got
    sentTo             \* the phone of the latest send-otp request that succeeded, if any

loginVars == <<phoneField, otp, step, isSending, isVerifying, message,
               sendReq, verifyReq, onLoginSuccess, lastSettled, sentTo>>

vars == <<otpVars, storeVars, patchVars, loginVars>>

\* ------------------------------------------------------------ OTP service

OTP_TTL_MS == 5 * 60 * 1000

ExpiresAtOf(t) == t + OTP_TTL_MS

IsExpired(t, entry) == t > entry.expiresAt

Resp(id, op, phone, code, status, error) ==
    [id |-> id, op |-> op, phone |-> phone, code |-> code,
     status |-> status, error |-> error]

NoResp == Resp(0, "none", "", "", 0, "")

\* The store write of /send-otp.
SendStoreKeep(store, phone, code, t) ==
    IF MapHas(store, phone) THEN store
    ELSE MapSet(store, phone, [code |-> code, expiresAt |-> ExpiresAtOf(t)])
SendStore(store, phone, code, t) ==
    MapSet(store, phone, [code |-> code, expiresAt |-> ExpiresAtOf(t)])

\* The /verify-otp handler as a function of the store, the body and the
\* clock: the response's status and error, and the store it leaves.
VerifyNoDelete(store, phone, code, t) ==
    IF phone = "" \/ code = ""
    THEN [status |-> 400, error |-> "phone and code required", store |-> store]
    ELSE IF ~MapHas(store, phone)
    THEN [status |-> 400, error |-> "No code found", store |-> store]
    ELSE IF IsExpired(t, store[phone])
    THEN [status |-> 400, error |-> "Code expired", store |-> MapDelete(store, phone)]
    ELSE IF store[phone].code # code
    THEN [status |-> 400, error |-> "Invalid code", store |-> store]
    ELSE [status |-> 200, error |-> "", store |-> store]
VerifyMissingAsInvalid(store, phone, code, t) ==
    IF phone = "" \/ code = ""
    THEN [status |-> 400, error |-> "phone and code required", store |-> store]
    ELSE IF ~MapHas(store, phone)
    THEN [status |-> 400, error |-> "Invalid code", store |-> store]
    ELSE IF IsExpired(t, store[phone])
    THEN [status |-> 400, error |-> "Code expired", store |-> MapDelete(store, phone)]
    ELSE IF store[phone].code # code
    THEN [status |-> 400, error |-> "Invalid code", store |-> store]
    ELSE [status |-> 200, error |-> "", store |-> MapDelete(store, phone)]
VerifyCodeFirst(store, phone, code, t) ==
    IF phone = "" \/ code = ""
    THEN [status |-> 400, error |-> "phone and code required", store |-> store]
    ELSE IF ~MapHas(store, phone)
    THEN [status |-> 400, error |-> "No code found", store |-> store]
    ELSE IF store[phone].code # code
    THEN [status |-> 400, error |-> "Invalid code", store |-> store]
    ELSE IF IsExpired(t, store[phone])
    THEN [status |-> 400, error |-> "Code expired", store |-> MapDelete(store, phone)]
    ELSE [status |-> 200, error |-> "", store |-> MapDelete(store, phone)]
VerifyMismatchDeletes(store, phone, code, t) ==
    IF phone = "" \/ code = ""
    THEN [status |-> 400, error |-> "phone and code required", store |-> store]
    ELSE IF ~MapHas(store, phone)
    THEN [status |-> 400, error |-> "No code found", store |-> store]
    ELSE IF IsExpired(t, store[phone])
    THEN [status |-> 400, error |-> "Code expired", store |-> MapDelete(store, phone)]
    ELSE IF store[phone].code # code
    THEN [status |-> 400, error |-> "Invalid code", store |-> MapDelete(store, phone)]
    ELSE [status |-> 200, error |-> "", store |-> MapDelete(store, phone)]
VerifyOutcome(store, phone, code, t) ==
    IF phone = "" \/ code = ""
    THEN [status |-> 400, error |-> "phone and code required", store |-> store]
    ELSE IF ~MapHas(store, phone)
    THEN [status |-> 400, error |-> "No code found", store |-> store]
    ELSE IF IsExpired(t, store[phone])
    THEN [status |-> 400, error |-> "Code expired", store |-> MapDelete(store, phone)]
    ELSE IF store[phone].code # code
    THEN [status |-> 400, error |-> "Invalid code", store |-> store]
    ELSE [status |-> 200, error |-> "", store |-> MapDelete(store, phone)]

\* Time passes: by 1 ms, or by one whole TTL.
TicksTaken == (now \div OTP_TTL_MS) + (now % OTP_TTL_MS)
Tick ==
    /\ TicksTaken < MaxTicks
    /\ nReq < MaxReqs
    /\ \E d \in {1, OTP_TTL_MS} : now' = now + d
    /\ UNCHANGED <<otpStore, twilioConfigured, inflight, nReq, lastResp,
                   sendCount, latest, prevCode, delivery, okCount, mismatches,
                   removedBy, storeVars, patchVars, loginVars>>

\* POST /send-otp up to its first await (or its response when it has none),
\* received while fewer than limit handlers are suspended.
SendOtpAmong(limit, phone) ==
    /\ nReq < MaxReqs
    /\ nReq' = nReq + 1
    /\ IF phone = ""
       THEN /\ lastResp' = Resp(nReq + 1, "send-otp", phone, "", 400, "phone required")
            /\ UNCHANGED <<otpStore, inflight, sendCount, latest, prevCode, delivery,
                           mismatches, removedBy>>
       ELSE \E code \in Codes :
            /\ otpStore' = SendStore(otpStore, phone, code, now)
            /\ sendCount' = [sendCount EXCEPT ![phone] = @ + 1]
            /\ latest' = [latest EXCEPT ![phone] = Some([code |-> code, at |-> now])]
            /\ prevCode' = [prevCode EXCEPT ![phone] =
                                IF IsSome(latest[phone])
                                THEN Some(Get(latest[phone]).code) ELSE None]
            /\ mismatches' = [mismatches EXCEPT ![phone] = 0]
            /\ removedBy' = [removedBy EXCEPT ![phone] = "none"]
            /\ IF ~twilioConfigured
               THEN /\ lastResp' = Resp(nReq + 1, "send-otp", phone, code, 200, "")
                    /\ delivery' = [delivery EXCEPT ![phone] = "echoed"]
                    /\ UNCHANGED inflight
               ELSE /\ Cardinality(inflight) < limit
                    /\ inflight' = inflight \cup
                          {[id |-> nReq + 1, phone |-> phone, code |-> code]}
                    /\ delivery' = [delivery EXCEPT ![phone] = "pending"]
                    /\ UNCHANGED lastResp
    /\ UNCHANGED <<now, twilioConfigured, okCount, storeVars, patchVars, loginVars>>

SendOtp(phone) == SendOtpAmong(MaxInflight, phone)

\* Whether m is the latest /send-otp received for its phone.
IsLatestSend(m) == \A o \in inflight : o.phone = m.phone => o.id <= m.id

\* twilioClient.messages.create resolved: the handler answers success.
SendDelivered(m) ==
    /\ m \in inflight
    /\ inflight' = inflight \ {m}
    /\ lastResp' = Resp(m.id, "send-otp", m.phone, m.code, 200, "")
    /\ delivery' = IF delivery[m.phone] = "pending" /\ IsLatestSend(m)
                   THEN [delivery EXCEPT ![m.phone] = "delivered"] ELSE delivery
    /\ UNCHANGED <<otpStore, now, twilioConfigured, nReq, sendCount, latest, prevCode, okCount,
                   mismatches, removedBy, storeVars, patchVars, loginVars>>

\* twilioClient.messages.create rejected: the handler answers 500.
SendFailedRollback(m) ==
    /\ m \in inflight
    /\ inflight' = inflight \ {m}
    /\ otpStore' = MapDelete(otpStore, m.phone)
    /\ lastResp' = Resp(m.id, "send-otp", m.phone, m.code, 500, "Failed to send SMS")
    /\ delivery' = IF delivery[m.phone] = "pending" /\ IsLatestSend(m)
                   THEN [delivery EXCEPT ![m.phone] = "failed"] ELSE delivery
    /\ UNCHANGED <<now, twilioConfigured, nReq, sendCount, latest, prevCode, okCount,
                   mismatches, removedBy, storeVars, patchVars, loginVars>>
SendFailed(m) ==
    /\ m \in inflight
    /\ inflight' = inflight \ {m}
    /\ lastResp' = Resp(m.id, "send-otp", m.phone, m.code, 500, "Failed to send SMS")
    /\ delivery' = IF delivery[m.phone] = "pending" /\ IsLatestSend(m)
                   THEN [delivery EXCEPT ![m.phone] = "failed"] ELSE delivery
    /\ UNCHANGED <<otpStore, now, twilioConfigured, nReq, sendCount, latest, prevCode, okCount,
                   mismatches, removedBy, storeVars, patchVars, loginVars>>

\* POST /verify-otp: the handler has no await, it runs to its response.
VerifyOtp(phone, code) ==
    /\ nReq < MaxReqs
    /\ nReq' = nReq + 1
    /\ LET r == VerifyOutcome(otpStore, phone, code, now) IN
       /\ otpStore' = r.store
       /\ lastResp' = Resp(nReq + 1, "verify-otp", phone, code, r.status, r.error)
       /\ okCount' = IF r.status = 200
                     THEN [okCount EXCEPT ![phone] = @ + 1] ELSE okCount
       /\ mismatches' = IF r.error = "Invalid code"
                        THEN [mismatches EXCEPT ![phone] = @ + 1] ELSE mismatches
       /\ removedBy' = IF r.status = 200
                       THEN [removedBy EXCEPT ![phone] = "verified"]
                       ELSE IF r.error = "Code expired"
                       THEN [removedBy EXCEPT ![phone] = "expired"]
                       ELSE removedBy
    /\ UNCHANGED <<now, twilioConfigured, inflight, sendCount, latest, prevCode,
                   delivery, storeVars, patchVars, loginVars>>

\* ------------------------------------------- server: prices and harvest

\* Bounds of the facade specification.
MaxCalls == 3
MaxClock == 1

FarmerIds == {"f1", "f2"}
\* "" stands for a missing or empty field, 0 for a missing or zero quantity.
FarmerIdInputs == FarmerIds \cup {""}
Grades == {"Premium", "Medium"}
GradeInputs == Grades \cup {""}
Prices == {0, 550, 600}
Quantities == {0, 10}
\* The random suffix of a generated id.
Suffixes == {"a"}

NoId == [t |-> 0, r |-> ""]
ForgedId == [t |-> 0, r |-> "forged"]
GenId(t, suffix) == [t |-> t, r |-> suffix]

\* A request body for POST /harvest-requests. A forged body also carries id,
\* status and timestamp fields of its own.
Body(farmerId, grade, quantity, forged) ==
    [farmerId |-> farmerId, grade |-> grade, quantity |-> quantity,
     id |-> IF forged THEN ForgedId ELSE NoId,
     status |-> IF forged THEN "Approved" ELSE "",
     timestamp |-> IF forged THEN 999 ELSE 0]

\* The bodies submitted: complete ones, plain or forged, and one for each
\* missing field.
Bodies ==
    {Body(f, "Premium", 10, forged) : f \in FarmerIds, forged \in BOOLEAN}
    \cup {Body("", "Premium", 10, FALSE), Body("f1", "", 10, FALSE),
          Body("f1", "Premium", 0, FALSE)}

\* { ...data, id, status: 'Pending Approval', timestamp }
NewRequestBodyWins(data, t, suffix) ==
    IF data.status # "" THEN data
    ELSE [data EXCEPT !.id = GenId(t, suffix), !.status = "Pending Approval",
                      !.timestamp = t]
NewRequest(data, t, suffix) ==
    [data EXCEPT !.id = GenId(t, suffix), !.status = "Pending Approval",
                 !.timestamp = t]

\* A JSON value that crosses the facade: its kind and its payload.
Val(kind, value) == [kind |-> kind, value |-> value]
ErrorBody(msg) == Val("error", msg)

HttpResp(status, body) == [status |-> status, body |-> body]

\* The index of the first row of a collection with this grade, 0 if none.
FindGrade(rows, grade) ==
    IF \E i \in DOMAIN rows : rows[i].grade = grade
    THEN CHOOSE i \in DOMAIN rows :
            /\ rows[i].grade = grade
            /\ \A j \in DOMAIN rows : rows[j].grade = grade => i <= j
    ELSE 0

\* GET /market-status: the document's value, open when there is none.
SrvGetMarketStatus(meta) ==
    HttpResp(200, Val("statusEnvelope", IF IsSome(meta) THEN Get(meta) ELSE TRUE))

\* POST /market-status: upsert of the one document.
SrvPostMarketStatus(meta, isOpen) ==
    [resp |-> HttpResp(200, Val("statusEnvelope", isOpen)), meta |-> Some(isOpen)]

\* GET /market-prices
SrvGetPrices(coll) == HttpResp(200, Val("array", coll))

\* PATCH /market-prices; price is None for a body whose price is no number.
SrvPatchPriceKeepPrevious(coll, grade, price, t) ==
    IF grade = "" \/ ~IsSome(price)
    THEN [resp |-> HttpResp(400, ErrorBody("Invalid payload")), coll |-> coll]
    ELSE LET i == FindGrade(coll, grade)
             previousPrice == IF i # 0 THEN coll[i].previousPrice ELSE None
             updated == [grade |-> grade, price |-> Get(price),
                         previousPrice |-> previousPrice, updatedAt |-> t]
         IN [resp |-> HttpResp(200, Val("priceEnvelope", updated)),
             coll |-> IF i # 0 THEN [coll EXCEPT ![i] = updated]
                      ELSE Append(coll, updated)]
SrvPatchPrice(coll, grade, price, t) ==
    IF grade = "" \/ ~IsSome(price)
    THEN [resp |-> HttpResp(400, ErrorBody("Invalid payload")), coll |-> coll]
    ELSE LET i == FindGrade(coll, grade)
             previousPrice == IF i # 0 THEN Some(coll[i].price) ELSE None
             updated == [grade |-> grade, price |-> Get(price),
                         previousPrice |-> previousPrice, updatedAt |-> t]
         IN [resp |-> HttpResp(200, Val("priceEnvelope", updated)),
             coll |-> IF i # 0 THEN [coll EXCEPT ![i] = updated]
                      ELSE Append(coll, updated)]

\* POST /harvest-requests
SrvPostHarvest(coll, data, t, suffix) ==
    IF data.farmerId = "" \/ data.grade = "" \/ data.quantity = 0
    THEN [resp |-> HttpResp(400, ErrorBody("Missing fields")), coll |-> coll]
    ELSE LET newReq == NewRequest(data, t, suffix)
         IN [resp |-> HttpResp(201, Val("requestEnvelope", newReq)),
             coll |-> Append(coll, newReq)]

\* Array.prototype.sort((a, b) => b.timestamp - a.timestamp) and
\* .sort({ timestamp: -1 }): a stable insertion sort, newest first.
RECURSIVE InsertDesc(_, _)
InsertDesc(sorted, x) ==
    IF sorted = <<>> THEN <<x>>
    ELSE IF Head(sorted).timestamp >= x.timestamp
    THEN <<Head(sorted)>> \o InsertDesc(Tail(sorted), x)
    ELSE <<x>> \o sorted

RECURSIVE SortDesc(_)
SortDesc(rows) ==
    IF rows = <<>> THEN <<>>
    ELSE InsertDesc(SortDesc(SubSeq(rows, 1, Len(rows) - 1)), rows[Len(rows)])

OfFarmer(rows, farmerId) == SelectSeq(rows, LAMBDA r : r.farmerId = farmerId)

\* GET /harvest-requests?farmerId=
SrvGetHarvest(coll, farmerId) ==
    HttpResp(200, Val("array",
        SortDesc(IF farmerId # "" THEN OfFarmer(coll, farmerId) ELSE coll)))

\* The index of the first record of a collection with this id, 0 if none.
FindId(rows, id) ==
    IF \E i \in DOMAIN rows : rows[i].id = id
    THEN CHOOSE i \in DOMAIN rows :
            /\ rows[i].id = id
            /\ \A j \in DOMAIN rows : rows[j].id = id => i <= j
    ELSE 0

\* The statuses an administrator sets; "" stands for a missing status.
Statuses == {"Approved", "Rejected"}
StatusInputs == Statuses \cup {""}
\* The ids a status update names: those the clock and the suffixes can
\* generate, stored or not.
RequestIds == {GenId(t, r) : t \in 0..MaxClock, r \in Suffixes}

\* PATCH /harvest-requests/:id
SrvPatchHarvestUpsert(coll, id, status) ==
    IF status = ""
    THEN [resp |-> HttpResp(400, ErrorBody("Missing status")), coll |-> coll]
    ELSE LET i == FindId(coll, id)
             created == [Body("", "", 0, FALSE) EXCEPT !.id = id, !.status = status]
         IN IF i = 0
            THEN [resp |-> HttpResp(200, Val("requestEnvelope", created)),
                  coll |-> Append(coll, created)]
            ELSE LET updated == [coll[i] EXCEPT !.status = status]
                 IN [resp |-> HttpResp(200, Val("requestEnvelope", updated)),
                     coll |-> [coll EXCEPT ![i] = updated]]
SrvPatchHarvest(coll, id, status) ==
    IF status = ""
    THEN [resp |-> HttpResp(400, ErrorBody("Missing status")), coll |-> coll]
    ELSE LET i == FindId(coll, id)
         IN IF i = 0
            THEN [resp |-> HttpResp(404, ErrorBody("Request not found")), coll |-> coll]
            ELSE LET updated == [coll[i] EXCEPT !.status = status]
                 IN [resp |-> HttpResp(200, Val("requestEnvelope", updated)),
                     coll |-> [coll EXCEPT ![i] = updated]]

\* --------------------------------------------------- client: local storage

\* MOCK_SHRIMP_PRICES of ../constants: the seed of the local price list.
MOCK_SHRIMP_PRICES ==
    <<[grade |-> "Premium", price |-> 500, previousPrice |-> None, updatedAt |-> 0]>>

EmptyStorage == [harvest |-> None, prices |-> None, status |-> None]

\* getDb
GetDb(ls) == IF IsSome(ls.harvest) THEN Get(ls.harvest) ELSE <<>>
\* saveDb
SaveDb(ls, db) == [ls EXCEPT !.harvest = Some(db)]
\* getPricesDb: the list, and the storage it leaves (seeded on first access).
GetPricesDb(ls) ==
    IF IsSome(ls.prices) THEN [rows |-> Get(ls.prices), ls |-> ls]
    ELSE [rows |-> MOCK_SHRIMP_PRICES,
          ls |-> [ls EXCEPT !.prices = Some(MOCK_SHRIMP_PRICES)]]
\* savePricesDb
SavePricesDb(ls, db) == [ls EXCEPT !.prices = Some(db)]

\* What one run of a fallback does: it throws, or returns a value (after
\* withLatency), and leaves the storage ls.
Threw(msg, ls) == [threw |-> TRUE, value |-> ErrorBody(msg), ls |-> ls]
Returned(value, ls) == [threw |-> FALSE, value |-> value, ls |-> ls]

\* ------------------------------------------------------- client: tryFetch

\* API_BASE
ApiBase ==
    IF viteApiBaseUrl # "" THEN viteApiBaseUrl
    ELSE IF viteApiBase # "" THEN viteApiBase
    ELSE "http://localhost:4000"

\* What the remote end does with a request that is sent.
\*   up       the api-backend handles it and its answer arrives
\*   down     fetch rejects (network failure)
\*   http500  an answer with status 500 arrives, no handler effect
\*   notjson  a 200 answer arrives whose body is not JSON
Remotes == {"up", "down", "http500", "notjson"}
\*   oddshape a 200 answer arrives whose JSON body is an object of none of
\*            the shapes the operations know (no status, price, prices,
\*            request or requests field)
RemotesAnyShape == Remotes \cup {"oddshape"}
OddBody == Val("object", "")

\* fetch(url, options) as tryFetch sees it: rejected, or a Response with ok
\* and the parsed body (None when res.json() rejects).
Fetch(remote, srv) ==
    CASE remote = "down" -> [rejected |-> TRUE, ok |-> FALSE, data |-> None]
      [] remote = "http500" -> [rejected |-> FALSE, ok |-> FALSE, data |-> None]
      [] remote = "notjson" -> [rejected |-> FALSE, ok |-> TRUE, data |-> None]
      [] remote = "oddshape" -> [rejected |-> FALSE, ok |-> TRUE, data |-> Some(OddBody)]
      [] OTHER -> [rejected |-> FALSE,
                   ok |-> srv.status >= 200 /\ srv.status <= 299,
                   data |-> Some(srv.body)]

\* How a tryFetch call ends: via "remote", "fallback" or "error"; the value it
\* resolves to (or the error it rejects with); how often fetch and the
\* fallback ran; and the storage the fallback runs left.
Settled(via, value, fetches, fallbacks, ls) ==
    [via |-> via, value |-> value, fetches |-> fetches, fallbacks |-> fallbacks,
     ls |-> ls]

\* The fallback is a closure over local storage. tryFetch gets what its first
\* run does (fb1, on the storage as the call finds it) and what a run after
\* that one does (fb2, on the storage the first run left).

\* The catch block of tryFetch: err was thrown inside the try, and fb is what
\* the fallback() call of the catch block does.
TryFetchCatch(err, fb, fallbacks) ==
    IF fb.threw
    THEN Settled("error", err, 1, fallbacks + 1, fb.ls)
    ELSE Settled("fallback", fb.value, 1, fallbacks + 1, fb.ls)

\* A fallback() call made inside the try block: what it throws is caught by
\* the catch block, which calls fallback() again.
TryFetchInTry(fb1, fb2) ==
    IF fb1.threw
    THEN TryFetchCatch(fb1.value, fb2, 1)
    ELSE Settled("fallback", fb1.value, 1, 1, fb1.ls)

TryFetchNoFallbackOnError(base, remote, srv, fb1, fb2, ls) ==
    LET res == Fetch(remote, srv)
    IN IF res.rejected
       THEN TryFetchCatch(ErrorBody("network"), fb1, 0)
       ELSE IF ~res.ok
       THEN Settled("error", ErrorBody("Request failed"), 1, 0, ls)
       ELSE IF ~IsSome(res.data)
       THEN TryFetchInTry(fb1, fb2)
       ELSE Settled("remote", Get(res.data), 1, 0, ls)
TryFetch(base, remote, srv, fb1, fb2, ls) ==
    IF base = ""
    THEN IF fb1.threw
         THEN Settled("error", fb1.value, 0, 1, fb1.ls)
         ELSE Settled("fallback", fb1.value, 0, 1, fb1.ls)
    ELSE LET res == Fetch(remote, srv)
         IN IF res.rejected
            THEN TryFetchCatch(ErrorBody("network"), fb1, 0)
            ELSE IF ~res.ok
            THEN TryFetchInTry(fb1, fb2)
            ELSE IF ~IsSome(res.data)
            THEN TryFetchInTry(fb1, fb2)
            ELSE Settled("remote", Get(res.data), 1, 0, ls)

\* ------------------------------------------------ client: the operations

\* Boolean(r) of a JSON value.
Truthy(r) ==
    CASE r.kind = "bool" -> r.value
      [] r.kind = "number" -> r.value # 0
      [] OTHER -> TRUE

\* getMarketStatus: fallback and .then
FbGetMarketStatus(ls) ==
    Returned(Val("bool", IF IsSome(ls.status) THEN Get(ls.status) ELSE TRUE), ls)
ThenGetMarketStatusTruthy(r) ==
    IF r.kind = "bool" THEN r
    ELSE Val("bool", Truthy(r))
ThenGetMarketStatus(r) ==
    IF r.kind = "bool" THEN r
    ELSE IF r.kind = "statusEnvelope" THEN Val("bool", r.value)
    ELSE Val("bool", Truthy(r))

\* updateMarketStatus: fallback and .then
FbUpdateMarketStatus(ls, isOpen) ==
    Returned(Val("bool", isOpen), [ls EXCEPT !.status = Some(isOpen)])
ThenUpdateMarketStatus(r, isOpen) ==
    IF r.kind = "statusEnvelope" THEN Val("bool", r.value)
    ELSE Val("bool", Truthy(r))

\* getMarketPrices: fallback and .then
FbGetMarketPrices(ls) ==
    LET db == GetPricesDb(ls) IN Returned(Val("array", db.rows), db.ls)
ThenGetMarketPrices(r, ls) ==
    IF r.kind = "array" THEN [value |-> r, ls |-> ls]
    ELSE LET db == GetPricesDb(ls)
         IN [value |-> Val("array", db.rows), ls |-> db.ls]

\* updateMarketPrice: fallback and .then
FbUpdateMarketPrice(ls, grade, newPrice) ==
    LET db == GetPricesDb(ls)
        idx == FindGrade(db.rows, grade)
    IN IF idx = 0 THEN Threw("Price for grade not found", db.ls)
       ELSE LET old == db.rows[idx].price
                updated == [db.rows[idx] EXCEPT !.price = newPrice,
                                                !.previousPrice = Some(old)]
            IN Returned(Val("price", updated),
                        SavePricesDb(db.ls, [db.rows EXCEPT ![idx] = updated]))
\* if (r && r.price) return r.price; return r
ThenUpdateMarketPrice(r) ==
    IF r.kind = "priceEnvelope" THEN Val("price", r.value)
    ELSE IF r.kind = "price" /\ r.value.price # 0 THEN Val("number", r.value.price)
    ELSE r

\* submitHarvestRequest: fallback and .then
FbSubmitHarvestRequest(ls, data, t, suffix) ==
    LET newRequest == NewRequest(data, t, suffix)
    IN Returned(Val("request", newRequest), SaveDb(ls, Append(GetDb(ls), newRequest)))
\* if (r && r.request) return r.request; return r
ThenSubmitHarvestRequest(r) ==
    IF r.kind = "requestEnvelope" THEN Val("request", r.value) ELSE r

\* getHarvestRequestsForUser: fallback and .then
FbGetHarvestRequestsForUser(ls, farmerId) ==
    Returned(Val("array", SortDesc(OfFarmer(GetDb(ls), farmerId))), ls)
ThenGetHarvestRequestsForUser(r, ls, farmerId) ==
    IF r.kind = "array" THEN r
    ELSE Val("array", OfFarmer(GetDb(ls), farmerId))

\* getAllHarvestRequests: fallback and .then
FbGetAllHarvestRequests(ls) ==
    Returned(Val("array", SortDesc(GetDb(ls))), ls)
ThenGetAllHarvestRequests(r, ls) ==
    IF r.kind = "array" THEN r
    ELSE Val("array", SortDesc(GetDb(ls)))

\* updateHarvestRequestStatus: fallback and .then
FbUpdateHarvestRequestStatusReplaces(ls, requestId, newStatus) ==
    LET db == GetDb(ls)
        idx == FindId(db, requestId)
    IN IF idx = 0 THEN Threw("Request not found", ls)
       ELSE LET updated == [db[idx] EXCEPT !.status = newStatus]
            IN Returned(Val("request", updated), SaveDb(ls, <<updated>>))
FbUpdateHarvestRequestStatus(ls, requestId, newStatus) ==
    LET db == GetDb(ls)
        idx == FindId(db, requestId)
    IN IF idx = 0 THEN Threw("Request not found", ls)
       ELSE LET updated == [db[idx] EXCEPT !.status = newStatus]
            IN Returned(Val("request", updated),
                        SaveDb(ls, [db EXCEPT ![idx] = updated]))
\* if (r && r.request) return r.request; return r
ThenUpdateHarvestRequestStatus(r) ==
    IF r.kind = "requestEnvelope" THEN Val("request", r.value) ELSE r

\* ------------------------------------------------------- facade actions

\* The HTTP status tryFetch saw (0 when fetch rejected) and, when the
\* api-backend answered with an error envelope, its message.
StatusSeen(remote, srv) ==
    CASE remote = "down" -> 0
      [] remote = "http500" -> 500
      [] remote = "up" -> srv.status
      [] OTHER -> 200
ErrorSeen(remote, srv) ==
    IF remote = "up" /\ srv.body.kind = "error" THEN srv.body.value ELSE ""
\* What the first run of the fallback did in a call that ended as s.
FallbackSeen(fb1, s) ==
    IF s.fallbacks = 0 THEN "none"
    ELSE IF fb1.threw THEN fb1.value.value
    ELSE "returned"

\* What is observed of a facade call: args are its arguments, as a tuple;
\* srv is the api-backend's answer to its request, fb1 the first run of its
\* fallback and s how tryFetch settled.
Call(n, op, args, remote, srv, fb1, s) ==
    [n |-> n, op |-> op, args |-> args, remote |-> remote, via |-> s.via,
     fetches |-> s.fetches, fallbacks |-> s.fallbacks, result |-> s.value,
     status |-> StatusSeen(remote, srv), error |-> ErrorSeen(remote, srv),
     fb |-> FallbackSeen(fb1, s)]

NoCall == [n |-> 0, op |-> "none", args |-> <<>>, remote |-> "up", via |-> "none",
           fetches |-> 0, fallbacks |-> 0, result |-> Val("none", ""),
           status |-> 0, error |-> "", fb |-> "none"]

\* Whether the request of a call reaches the api-backend's handler.
Reaches(remote) == ApiBase # "" /\ remote = "up"

otpRest == <<otpStore, twilioConfigured, inflight, nReq, lastResp, sendCount,
             latest, prevCode, delivery, okCount, mismatches, removedBy>>

\* A millisecond passes.
ClockTick ==
    /\ now < MaxClock
    /\ nCalls < MaxCalls
    /\ now' = now + 1
    /\ UNCHANGED <<otpRest, storeVars, patchVars, loginVars>>

\* getMarketStatus()
GetMarketStatus(remote) ==
    /\ nCalls < MaxCalls
    /\ nCalls' = nCalls + 1
    /\ LET fb1 == FbGetMarketStatus(localStorage)
           fb2 == FbGetMarketStatus(fb1.ls)
           srv == SrvGetMarketStatus(appMeta)
           s == TryFetch(ApiBase, remote, srv, fb1, fb2, localStorage)
       IN /\ localStorage' = s.ls
          /\ lastCall' = Call(nCalls + 1, "getMarketStatus", <<>>, remote, srv, fb1,
                              IF s.via = "error" THEN s
                              ELSE [s EXCEPT !.value = ThenGetMarketStatus(s.value)])
    /\ UNCHANGED <<now, otpRest, patchVars, loginVars, viteApiBaseUrl, viteApiBase, appMeta, pricesColl, harvestColl>>

\* updateMarketStatus(isOpen)
UpdateMarketStatus(isOpen, remote) ==
    /\ nCalls < MaxCalls
    /\ nCalls' = nCalls + 1
    /\ LET srv == SrvPostMarketStatus(appMeta, isOpen)
           fb1 == FbUpdateMarketStatus(localStorage, isOpen)
           fb2 == FbUpdateMarketStatus(fb1.ls, isOpen)
           s == TryFetch(ApiBase, remote, srv.resp, fb1, fb2, localStorage)
       IN /\ appMeta' = IF Reaches(remote) THEN srv.meta ELSE appMeta
          /\ localStorage' = s.ls
          /\ lastCall' = Call(nCalls + 1, "updateMarketStatus", <<isOpen>>, remote,
                              srv.resp, fb1,
                              IF s.via = "error" THEN s
                              ELSE [s EXCEPT !.value =
                                      ThenUpdateMarketStatus(s.value, isOpen)])
    /\ UNCHANGED <<now, otpRest, patchVars, loginVars, viteApiBaseUrl, viteApiBase, pricesColl, harvestColl>>

\* getMarketPrices()
GetMarketPrices(remote) ==
    /\ nCalls < MaxCalls
    /\ nCalls' = nCalls + 1
    /\ LET fb1 == FbGetMarketPrices(localStorage)
           fb2 == FbGetMarketPrices(fb1.ls)
           srv == SrvGetPrices(pricesColl)
           s == TryFetch(ApiBase, remote, srv, fb1, fb2, localStorage)
           t == IF s.via = "error" THEN [value |-> s.value, ls |-> s.ls]
                ELSE ThenGetMarketPrices(s.value, s.ls)
       IN /\ localStorage' = t.ls
          /\ lastCall' = Call(nCalls + 1, "getMarketPrices", <<>>, remote, srv, fb1,
                              [s EXCEPT !.value = t.value])
    /\ UNCHANGED <<now, otpRest, patchVars, loginVars, viteApiBaseUrl, viteApiBase, appMeta, pricesColl, harvestColl>>

\* updateMarketPrice(grade, newPrice)
UpdateMarketPrice(grade, newPrice, remote) ==
    /\ nCalls < MaxCalls
    /\ nCalls' = nCalls + 1
    /\ LET srv == SrvPatchPrice(pricesColl, grade, Some(newPrice), now)
           fb1 == FbUpdateMarketPrice(localStorage, grade, newPrice)
           fb2 == FbUpdateMarketPrice(fb1.ls, grade, newPrice)
           s == TryFetch(ApiBase, remote, srv.resp, fb1, fb2, localStorage)
       IN /\ pricesColl' = IF Reaches(remote) THEN srv.coll ELSE pricesColl
          /\ localStorage' = s.ls
          /\ lastCall' = Call(nCalls + 1, "updateMarketPrice", <<grade, newPrice>>, remote,
                              srv.resp, fb1,
                              IF s.via = "error" THEN s
                              ELSE [s EXCEPT !.value = ThenUpdateMarketPrice(s.value)])
    /\ UNCHANGED <<now, otpRest, patchVars, loginVars, viteApiBaseUrl, viteApiBase, appMeta, harvestColl>>

\* submitHarvestRequest(requestData)
SubmitHarvestRequest(data, suffix, remote) ==
    /\ nCalls < MaxCalls
    /\ nCalls' = nCalls + 1
    /\ LET srv == SrvPostHarvest(harvestColl, data, now, suffix)
           fb1 == FbSubmitHarvestRequest(localStorage, data, now, suffix)
           fb2 == FbSubmitHarvestRequest(fb1.ls, data, now, suffix)
           s == TryFetch(ApiBase, remote, srv.resp, fb1, fb2, localStorage)
       IN /\ harvestColl' = IF Reaches(remote) THEN srv.coll ELSE harvestColl
          /\ localStorage' = s.ls
          /\ lastCall' = Call(nCalls + 1, "submitHarvestRequest", <<data>>, remote,
                              srv.resp, fb1,
                              IF s.via = "error" THEN s
                              ELSE [s EXCEPT !.value = ThenSubmitHarvestRequest(s.value)])
    /\ UNCHANGED <<now, otpRest, patchVars, loginVars, viteApiBaseUrl, viteApiBase, appMeta, pricesColl>>

\* getHarvestRequestsForUser(farmerId)
GetHarvestRequestsForUser(farmerId, remote) ==
    /\ nCalls < MaxCalls
    /\ nCalls' = nCalls + 1
    /\ LET fb1 == FbGetHarvestRequestsForUser(localStorage, farmerId)
           fb2 == FbGetHarvestRequestsForUser(fb1.ls, farmerId)
           srv == SrvGetHarvest(harvestColl, farmerId)
           s == TryFetch(ApiBase, remote, srv, fb1, fb2, localStorage)
       IN /\ localStorage' = s.ls
          /\ lastCall' = Call(nCalls + 1, "getHarvestRequestsForUser", <<farmerId>>, remote,
                              srv, fb1,
                              IF s.via = "error" THEN s
                              ELSE [s EXCEPT !.value =
                                      ThenGetHarvestRequestsForUser(s.value, s.ls, farmerId)])
    /\ UNCHANGED <<now, otpRest, patchVars, loginVars, viteApiBaseUrl, viteApiBase, appMeta, pricesColl, harvestColl>>

\* getAllHarvestRequests()
GetAllHarvestRequests(remote) ==
    /\ nCalls < MaxCalls
    /\ nCalls' = nCalls + 1
    /\ LET fb1 == FbGetAllHarvestRequests(localStorage)
           fb2 == FbGetAllHarvestRequests(fb1.ls)
           srv == SrvGetHarvest(harvestColl, "")
           s == TryFetch(ApiBase, remote, srv, fb1, fb2, localStorage)
       IN /\ localStorage' = s.ls
          /\ lastCall' = Call(nCalls + 1, "getAllHarvestRequests", <<>>, remote,
                              srv, fb1,
                              IF s.via = "error" THEN s
                              ELSE [s EXCEPT !.value =
                                      ThenGetAllHarvestRequests(s.value, s.ls)])
    /\ UNCHANGED <<now, otpRest, patchVars, loginVars, viteApiBaseUrl, viteApiBase, appMeta, pricesColl, harvestColl>>

\* updateHarvestRequestStatus(requestId, newStatus)
UpdateHarvestRequestStatus(requestId, newStatus, remote) ==
    /\ nCalls < MaxCalls
    /\ nCalls' = nCalls + 1
    /\ LET srv == SrvPatchHarvest(harvestColl, requestId, newStatus)
           fb1 == FbUpdateHarvestRequestStatus(localStorage, requestId, newStatus)
           fb2 == FbUpdateHarvestRequestStatus(fb1.ls, requestId, newStatus)
           s == TryFetch(ApiBase, remote, srv.resp, fb1, fb2, localStorage)
       IN /\ harvestColl' = IF Reaches(remote) THEN srv.coll ELSE harvestColl
          /\ localStorage' = s.ls
          /\ lastCall' = Call(nCalls + 1, "updateHarvestRequestStatus",
                              <<requestId, newStatus>>, remote, srv.resp, fb1,
                              IF s.via = "error" THEN s
                              ELSE [s EXCEPT !.value =
                                      ThenUpdateHarvestRequestStatus(s.value)])
    /\ UNCHANGED <<now, otpRest, patchVars, loginVars, viteApiBaseUrl, viteApiBase, appMeta, pricesColl>>

\* ------------------------------------------------------- specifications

\* --------------------------- PATCH /market-prices, one await at a time

\* PATCH /market-prices requests the server receives in a behaviour.
MaxPatches == 3

\* Bodies of PATCH /market-prices: "" stands for a missing grade, None for a
\* price that is no number.
PatchGrades == {"Premium", ""}
PatchPrices == {None, Some(550), Some(600)}

\* What is observed of a PATCH /market-prices request that was answered: its
\* response, whether it wrote, and prior, the price the collection held for
\* the grade when its write took effect (None when it held no row).
Patched(id, resp, grade, wrote, prior) ==
    [id |-> id, resp |-> resp, grade |-> grade, wrote |-> wrote, prior |-> prior]

NoPatch == Patched(0, HttpResp(0, Val("none", "")), "", FALSE, None)

\* const existing = await pricesColl.findOne({ grade });
\* const previousPrice = existing ? existing.price : null;
PatchFindOne(coll, grade) ==
    LET i == FindGrade(coll, grade)
    IN IF i # 0 THEN Some(coll[i].price) ELSE None

\* await pricesColl.updateOne({ grade }, { $set: updated }, { upsert: true })
PatchUpdateOne(coll, updated) ==
    LET i == FindGrade(coll, updated.grade)
    IN IF i # 0 THEN [coll EXCEPT ![i] = updated] ELSE Append(coll, updated)

\* PATCH /market-prices up to its second await: the payload check, the
\* findOne and the record to write. A request with an invalid payload is
\* answered at once.
PatchBegin(grade, price) ==
    /\ nPatch < MaxPatches
    /\ nPatch' = nPatch + 1
    /\ IF grade = "" \/ ~IsSome(price)
       THEN /\ lastPatch' = Patched(nPatch + 1,
                                    HttpResp(400, ErrorBody("Invalid payload")),
                                    grade, FALSE, None)
            /\ UNCHANGED patching
       ELSE /\ patching' = patching \cup
                  {[id |-> nPatch + 1,
                    updated |-> [grade |-> grade, price |-> Get(price),
                                 previousPrice |-> PatchFindOne(pricesColl, grade),
                                 updatedAt |-> now]]}
            /\ UNCHANGED lastPatch
    /\ UNCHANGED <<now, otpRest, viteApiBaseUrl, viteApiBase, appMeta, pricesColl,
                   harvestColl, localStorage, nCalls, lastCall, loginVars>>

\* The rest of the handler m: the updateOne takes effect and the response
\* is written.
PatchWrite(m) ==
    /\ m \in patching
    /\ patching' = patching \ {m}
    /\ pricesColl' = PatchUpdateOne(pricesColl, m.updated)
    /\ lastPatch' = Patched(m.id, HttpResp(200, Val("priceEnvelope", m.updated)),
                            m.updated.grade, TRUE,
                            PatchFindOne(pricesColl, m.updated.grade))
    /\ UNCHANGED <<now, otpRest, viteApiBaseUrl, viteApiBase, appMeta,
                   harvestColl, localStorage, nCalls, lastCall, nPatch, loginVars>>

\* ------------------------------------------------------- LoginScreen
\* src/components/LoginScreen.tsx. A text is a sequence of one-character
\* strings.

\* onLoginSuccess calls a behaviour may make.
MaxLogins == 1

Digits == {"0", "1", "2", "3", "4", "5", "6", "7", "8", "9"}

\* What the user may have typed into the phone input: nothing, ten digits
\* with a space, the same number with its country code, another number with
\* '+', and too few digits.
PhoneTexts ==
    { <<>>,
      <<"9", "8", "7", "6", "5", " ", "4", "3", "2", "1", "0">>,
      <<"9", "1", "9", "8", "7", "6", "5", "4", "3", "2", "1", "0">>,
      <<"+", "9", "1", "9", "8", "7", "6", "5", "4", "3", "2", "1", "1">>,
      <<"1", "2", "3", "4", "5">> }
\* What the user may have typed into the code input.
OtpTexts == { <<>>, <<"1", "2">>, <<" ", "1", "2", "3", "4", " ">> }

\* raw.replace(/\s+/g, '')
StripSpaces(raw) == SelectSeq(raw, LAMBDA c : c # " ")
\* raw.replace(/\D/g, '')
DigitsOf(raw) == SelectSeq(raw, LAMBDA c : c \in Digits)
\* t.startsWith(prefix)
StartsWith(t, prefix) ==
    Len(t) >= Len(prefix) /\ SubSeq(t, 1, Len(prefix)) = prefix
\* t.trim()
RECURSIVE TrimStart(_)
TrimStart(t) == IF t # <<>> /\ Head(t) = " " THEN TrimStart(Tail(t)) ELSE t
RECURSIVE TrimEnd(_)
TrimEnd(t) ==
    IF t # <<>> /\ t[Len(t)] = " " THEN TrimEnd(SubSeq(t, 1, Len(t) - 1)) ELSE t
Trim(t) == TrimEnd(TrimStart(t))

normalizePhone(raw) ==
    LET cleaned == StripSpaces(raw)
        digits == DigitsOf(cleaned)
    IN IF StartsWith(cleaned, <<"+">>) THEN cleaned
       ELSE IF Len(digits) = 10 THEN <<"+", "9", "1">> \o digits
       ELSE IF Len(digits) > 10 /\ StartsWith(digits, <<"9", "1">>) THEN <<"+">> \o digits
       ELSE <<"+">> \o digits

\* How a fetch of the OTP server settles: rejected (no response), or a
\* response whose status is a success one (ok) or not and whose body is JSON
\* or not; success is the body's success field and text its error (send-otp)
\* or message (verify-otp) field, "" when the body has none.
Answer(kind, ok, success, text) ==
    [kind |-> kind, ok |-> ok, success |-> success, text |-> text]
FetchRejected == Answer("rejected", FALSE, FALSE, "Failed to fetch")
SendAnswers ==
    { FetchRejected,
      Answer("json", TRUE, TRUE, ""),
      Answer("notjson", TRUE, FALSE, ""),
      Answer("json", FALSE, FALSE, "phone required"),
      Answer("json", FALSE, FALSE, ""),
      Answer("notjson", FALSE, FALSE, "") }
VerifyAnswers ==
    { FetchRejected,
      Answer("json", TRUE, TRUE, ""),
      Answer("json", TRUE, FALSE, ""),
      Answer("json", FALSE, TRUE, ""),
      Answer("json", FALSE, FALSE, "Invalid code"),
      Answer("json", FALSE, FALSE, ""),
      Answer("notjson", TRUE, FALSE, "Unexpected token"),
      Answer("notjson", FALSE, FALSE, "Unexpected token") }

\* The request that settled and the answer it got.
SettledRequest(req, phone, answer) == [req |-> req, phone |-> phone, answer |-> answer]
NothingSettled == SettledRequest("none", <<>>, FetchRejected)

\* sendOtp takes its try block to the end: fetch resolved and res.ok.
SendSucceeded(answer) == answer.kind # "rejected" /\ answer.ok
\* The message sendOtp's catch block sets: the error thrown at line 50 or
\* the one fetch rejected with.
SendErrorMessage(answer) ==
    IF answer.kind = "rejected" THEN answer.text
    ELSE IF answer.kind = "json" /\ answer.text # "" THEN answer.text
    ELSE "Failed to send OTP"

\* verifyOtp: res.ok && data.success, once res.json() resolved
VerifySucceededOnField(answer) ==
    answer.kind = "json" /\ answer.success
VerifySucceeded(answer) ==
    answer.kind = "json" /\ answer.ok /\ answer.success
\* The message verifyOtp sets otherwise: data.message or the default in the
\* else branch, the thrown error's in the catch block.
VerifyErrorMessage(answer) ==
    IF answer.kind = "json"
    THEN IF answer.text # "" THEN answer.text ELSE "Incorrect OTP. Please try again."
    ELSE answer.text

\* What no LoginScreen handler touches.
loginRest == <<otpVars, storeVars, patchVars>>

\* onChange of the phone input, rendered in step 'enterPhone'.
SetPhone(text) ==
    /\ step = "enterPhone"
    /\ phoneField' = text
    /\ UNCHANGED <<otp, step, isSending, isVerifying, message, sendReq, verifyReq,
                   onLoginSuccess, lastSettled, sentTo, loginRest>>

\* onChange of the code input, rendered in step 'enterOtp'.
SetOtp(text) ==
    /\ step = "enterOtp"
    /\ otp' = text
    /\ UNCHANGED <<phoneField, step, isSending, isVerifying, message, sendReq,
                   verifyReq, onLoginSuccess, lastSettled, sentTo, loginRest>>

\* sendOtp up to its await: a click on 'Send OTP' or 'Resend OTP', both
\* disabled while isSending.
SendOtpClicked ==
    /\ ~isSending
    /\ IF Len(DigitsOf(phoneField)) < 10
       THEN /\ message' = Some("Please enter a valid phone number (10 digits).")
            /\ UNCHANGED <<isSending, sendReq>>
       ELSE /\ message' = None
            /\ isSending' = TRUE
            /\ sendReq' = Some(normalizePhone(phoneField))
    /\ UNCHANGED <<phoneField, otp, step, isVerifying, verifyReq, onLoginSuccess,
                   lastSettled, sentTo, loginRest>>

\* sendOtp from its await on: the fetch settled with this answer.
SendOtpSettled(answer) ==
    /\ IsSome(sendReq)
    /\ sendReq' = None
    /\ IF SendSucceeded(answer)
       THEN /\ step' = "enterOtp"
            /\ message' = Some("OTP sent. Check your phone.")
            /\ sentTo' = sendReq
       ELSE /\ message' = Some(SendErrorMessage(answer))
            /\ UNCHANGED <<step, sentTo>>
    /\ isSending' = FALSE
    /\ lastSettled' = SettledRequest("send-otp", Get(sendReq), answer)
    /\ UNCHANGED <<phoneField, otp, isVerifying, verifyReq, onLoginSuccess, loginRest>>

\* verifyOtp up to its await: a click on 'Verify OTP', rendered in step
\* 'enterOtp' and disabled while isVerifying.
VerifyOtpClicked ==
    /\ step = "enterOtp"
    /\ ~isVerifying
    /\ IF Len(Trim(otp)) < 3
       THEN /\ message' = Some("Please enter the OTP received.")
            /\ UNCHANGED <<isVerifying, verifyReq>>
       ELSE /\ message' = None
            /\ isVerifying' = TRUE
            /\ verifyReq' = Some([phone |-> normalizePhone(phoneField),
                                  code |-> Trim(otp)])
    /\ UNCHANGED <<phoneField, otp, step, isSending, sendReq, onLoginSuccess,
                   lastSettled, sentTo, loginRest>>

\* verifyOtp from its await on: the fetch settled with this answer.
VerifyOtpSettled(answer) ==
    /\ IsSome(verifyReq)
    /\ VerifySucceeded(answer) => Len(onLoginSuccess) < MaxLogins
    /\ verifyReq' = None
    /\ IF VerifySucceeded(answer)
       THEN /\ message' = Some("Login successful. Welcome!")
            /\ onLoginSuccess' = Append(onLoginSuccess, Get(verifyReq).phone)
       ELSE /\ message' = Some(VerifyErrorMessage(answer))
            /\ UNCHANGED onLoginSuccess
    /\ isVerifying' = FALSE
    /\ lastSettled' = SettledRequest("verify-otp", Get(verifyReq).phone, answer)
    /\ UNCHANGED <<phoneField, otp, step, isSending, sendReq, sentTo, loginRest>>

\* goBack: a click on 'Change number', rendered in step 'enterOtp'.
GoBack ==
    /\ step = "enterOtp"
    /\ otp' = <<>>
    /\ step' = "enterPhone"
    /\ message' = None
    /\ UNCHANGED <<phoneField, isSending, isVerifying, sendReq, verifyReq,
                   onLoginSuccess, lastSettled, sentTo, loginRest>>

\* The OTP endpoints of the api-backend; the facade and the document store
\* are idle.
Init ==
    /\ otpStore = EmptyMap
    /\ now = 0
    /\ twilioConfigured \in BOOLEAN
    /\ inflight = {}
    /\ nReq = 0
    /\ lastResp = NoResp
    /\ sendCount = [p \in Phones |-> 0]
    /\ latest = [p \in Phones |-> None]
    /\ prevCode = [p \in Phones |-> None]
    /\ delivery = [p \in Phones |-> "none"]
    /\ okCount = [p \in Phones |-> 0]
    /\ mismatches = [p \in Phones |-> 0]
    /\ removedBy = [p \in Phones |-> "none"]
    /\ viteApiBaseUrl = ""
    /\ viteApiBase = ""
    /\ appMeta = None
    /\ pricesColl = <<>>
    /\ harvestColl = <<>>
    /\ localStorage = EmptyStorage
    /\ nCalls = 0
    /\ lastCall = NoCall
    /\ patching = {}
    /\ nPatch = 0
    /\ lastPatch = NoPatch
    /\ phoneField = <<>>
    /\ otp = <<>>
    /\ step = "enterPhone"
    /\ isSending = FALSE
    /\ isVerifying = FALSE
    /\ message = None
    /\ sendReq = None
    /\ verifyReq = None
    /\ onLoginSuccess = <<>>
    /\ lastSettled = NothingSettled
    /\ sentTo = None

Next ==
    \/ Tick
    \/ \E phone \in PhoneInputs : SendOtp(phone)
    \/ \E m \in inflight : SendDelivered(m)
    \/ \E m \in inflight : SendFailed(m)
    \/ \E phone \in PhoneInputs, code \in CodeInputs : VerifyOtp(phone, code)

Spec == Init /\ [][Next]_vars

\* The OTP endpoints with an SMS provider configured and clients that send
\* while other sends wait for the provider.
RaceInit ==
    /\ otpStore = EmptyMap
    /\ now = 0
    /\ twilioConfigured = TRUE
    /\ inflight = {}
    /\ nReq = 0
    /\ lastResp = NoResp
    /\ sendCount = [p \in Phones |-> 0]
    /\ latest = [p \in Phones |-> None]
    /\ prevCode = [p \in Phones |-> None]
    /\ delivery = [p \in Phones |-> "none"]
    /\ okCount = [p \in Phones |-> 0]
    /\ mismatches = [p \in Phones |-> 0]
    /\ removedBy = [p \in Phones |-> "none"]
    /\ viteApiBaseUrl = ""
    /\ viteApiBase = ""
    /\ appMeta = None
    /\ pricesColl = <<>>
    /\ harvestColl = <<>>
    /\ localStorage = EmptyStorage
    /\ nCalls = 0
    /\ lastCall = NoCall
    /\ patching = {}
    /\ nPatch = 0
    /\ lastPatch = NoPatch
    /\ phoneField = <<>>
    /\ otp = <<>>
    /\ step = "enterPhone"
    /\ isSending = FALSE
    /\ isVerifying = FALSE
    /\ message = None
    /\ sendReq = None
    /\ verifyReq = None
    /\ onLoginSuccess = <<>>
    /\ lastSettled = NothingSettled
    /\ sentTo = None

\* The requests all name one phone, or none.
RacePhoneInputs == {"+911", ""}

RaceNext ==
    \/ Tick
    \/ \E phone \in RacePhoneInputs : SendOtpAmong(MaxRacing, phone)
    \/ \E m \in inflight : SendDelivered(m)
    \/ \E m \in inflight : SendFailed(m)
    \/ \E phone \in RacePhoneInputs, code \in CodeInputs : VerifyOtp(phone, code)

SpecRace == RaceInit /\ [][RaceNext]_vars

\* The client facade over the api-backend's document store; the OTP
\* endpoints are idle. The environment sets the base address or leaves it
\* unset.
FacadeInit ==
    /\ otpStore = EmptyMap
    /\ now = 0
    /\ twilioConfigured = FALSE
    /\ inflight = {}
    /\ nReq = 0
    /\ lastResp = NoResp
    /\ sendCount = [p \in Phones |-> 0]
    /\ latest = [p \in Phones |-> None]
    /\ prevCode = [p \in Phones |-> None]
    /\ delivery = [p \in Phones |-> "none"]
    /\ okCount = [p \in Phones |-> 0]
    /\ mismatches = [p \in Phones |-> 0]
    /\ removedBy = [p \in Phones |-> "none"]
    /\ \E env \in {<<"", "">>, <<"http://api", "">>, <<"", "http://api">>} :
          /\ viteApiBaseUrl = env[1]
          /\ viteApiBase = env[2]
    /\ appMeta = None
    /\ pricesColl = <<>>
    /\ harvestColl = <<>>
    /\ localStorage = EmptyStorage
    /\ nCalls = 0
    /\ lastCall = NoCall
    /\ patching = {}
    /\ nPatch = 0
    /\ lastPatch = NoPatch
    /\ phoneField = <<>>
    /\ otp = <<>>
    /\ step = "enterPhone"
    /\ isSending = FALSE
    /\ isVerifying = FALSE
    /\ message = None
    /\ sendReq = None
    /\ verifyReq = None
    /\ onLoginSuccess = <<>>
    /\ lastSettled = NothingSettled
    /\ sentTo = None

\* Market prices through the facade.
PricesNext ==
    \/ ClockTick
    \/ \E remote \in Remotes : GetMarketPrices(remote)
    \/ \E grade \in GradeInputs, newPrice \in Prices, remote \in Remotes :
          UpdateMarketPrice(grade, newPrice, remote)

SpecPrices == FacadeInit /\ [][PricesNext]_vars

\* Harvest requests through the facade.
HarvestNext ==
    \/ ClockTick
    \/ \E data \in Bodies, suffix \in Suffixes, remote \in Remotes :
          SubmitHarvestRequest(data, suffix, remote)
    \/ \E farmerId \in FarmerIdInputs, remote \in Remotes :
          GetHarvestRequestsForUser(farmerId, remote)

SpecHarvest == FacadeInit /\ [][HarvestNext]_vars

\* The bodies an administration session sees submitted, to a remote that is
\* up or down.
AdminBodies == {Body(f, "Premium", 10, FALSE) : f \in FarmerIds}

\* Harvest requests as farmers submit and list them and the administrator
\* lists and decides them; the remote may also answer in a shape of its own.
AdminNext ==
    \/ ClockTick
    \/ \E data \in AdminBodies, suffix \in Suffixes, remote \in {"up", "down"} :
          SubmitHarvestRequest(data, suffix, remote)
    \/ \E farmerId \in FarmerIds, remote \in RemotesAnyShape :
          GetHarvestRequestsForUser(farmerId, remote)
    \/ \E remote \in RemotesAnyShape : GetAllHarvestRequests(remote)
    \/ \E requestId \in RequestIds, newStatus \in StatusInputs,
          remote \in {"up", "down", "oddshape"} :
          UpdateHarvestRequestStatus(requestId, newStatus, remote)

SpecAdmin == FacadeInit /\ [][AdminNext]_vars

\* The market status through the facade.
StatusNext ==
    \/ \E remote \in RemotesAnyShape : GetMarketStatus(remote)
    \/ \E isOpen \in BOOLEAN, remote \in RemotesAnyShape :
          UpdateMarketStatus(isOpen, remote)

SpecStatus == FacadeInit /\ [][StatusNext]_vars

\* The api-backend's PATCH /market-prices handler under concurrent requests;
\* everything else is idle.
PatchInit ==
    /\ otpStore = EmptyMap
    /\ now = 0
    /\ twilioConfigured = FALSE
    /\ inflight = {}
    /\ nReq = 0
    /\ lastResp = NoResp
    /\ sendCount = [p \in Phones |-> 0]
    /\ latest = [p \in Phones |-> None]
    /\ prevCode = [p \in Phones |-> None]
    /\ delivery = [p \in Phones |-> "none"]
    /\ okCount = [p \in Phones |-> 0]
    /\ mismatches = [p \in Phones |-> 0]
    /\ removedBy = [p \in Phones |-> "none"]
    /\ viteApiBaseUrl = ""
    /\ viteApiBase = ""
    /\ appMeta = None
    /\ pricesColl = <<>>
    /\ harvestColl = <<>>
    /\ localStorage = EmptyStorage
    /\ nCalls = 0
    /\ lastCall = NoCall
    /\ patching = {}
    /\ nPatch = 0
    /\ lastPatch = NoPatch
    /\ phoneField = <<>>
    /\ otp = <<>>
    /\ step = "enterPhone"
    /\ isSending = FALSE
    /\ isVerifying = FALSE
    /\ message = None
    /\ sendReq = None
    /\ verifyReq = None
    /\ onLoginSuccess = <<>>
    /\ lastSettled = NothingSettled
    /\ sentTo = None

PatchNext ==
    \/ \E grade \in PatchGrades, price \in PatchPrices : PatchBegin(grade, price)
    \/ \E m \in patching : PatchWrite(m)

SpecPatch == PatchInit /\ [][PatchNext]_vars

\* The login screen, its user and the OTP server's answers; everything else
\* is idle.
LoginInit ==
    /\ otpStore = EmptyMap
    /\ now = 0
    /\ twilioConfigured = FALSE
    /\ inflight = {}
    /\ nReq = 0
    /\ lastResp = NoResp
    /\ sendCount = [p \in Phones |-> 0]
    /\ latest = [p \in Phones |-> None]
    /\ prevCode = [p \in Phones |-> None]
    /\ delivery = [p \in Phones |-> "none"]
    /\ okCount = [p \in Phones |-> 0]
    /\ mismatches = [p \in Phones |-> 0]
    /\ removedBy = [p \in Phones |-> "none"]
    /\ viteApiBaseUrl = ""
    /\ viteApiBase = ""
    /\ appMeta = None
    /\ pricesColl = <<>>
    /\ harvestColl = <<>>
    /\ localStorage = EmptyStorage
    /\ nCalls = 0
    /\ lastCall = NoCall
    /\ patching = {}
    /\ nPatch = 0
    /\ lastPatch = NoPatch
    /\ phoneField = <<>>
    /\ otp = <<>>
    /\ step = "enterPhone"
    /\ isSending = FALSE
    /\ isVerifying = FALSE
    /\ message = None
    /\ sendReq = None
    /\ verifyReq = None
    /\ onLoginSuccess = <<>>
    /\ lastSettled = NothingSettled
    /\ sentTo = None

LoginNext ==
    \/ \E text \in PhoneTexts : SetPhone(text)
    \/ \E text \in OtpTexts : SetOtp(text)
    \/ SendOtpClicked
    \/ \E answer \in SendAnswers : SendOtpSettled(answer)
    \/ VerifyOtpClicked
    \/ \E answer \in VerifyAnswers : VerifyOtpSettled(answer)
    \/ GoBack

SpecLogin == LoginInit /\ [][LoginNext]_vars

\* ---------------------------------------------------------- OTP claims

FiveMinutes == 5 * 60 * 1000

\* The latest store write of /send-otp for phone p.
Sent(p) == sendCount[p] > 0
Latest(p) == Get(latest[p])

\* This step is a /verify-otp request for phone p with code c, handled and
\* answered.
Verified(p, c) ==
    /\ nReq' = nReq + 1
    /\ lastResp'.id = nReq'
    /\ lastResp'.op = "verify-otp"
    /\ lastResp'.phone = p
    /\ lastResp'.code = c

Accepted == lastResp'.status = 200 /\ lastResp'.error = ""
Rejected(error) == lastResp'.status = 400 /\ lastResp'.error = error

\* C1: a verify with the stored code, made no later than 5 minutes after the
\* send, is accepted and removes the entry; once a code was accepted, every
\* verify for that phone before the next send is answered 'No code found';
\* and a phone never has more accepted verifies than sends.
C1_VerifyOnce ==
    [][\A p \in Phones, c \in Codes :
          /\ Verified(p, c) =>
                /\ ( /\ MapHas(otpStore, p)
                     /\ otpStore[p].code = c
                     /\ now <= Latest(p).at + FiveMinutes )
                   => (Accepted /\ ~MapHas(otpStore', p))
                /\ removedBy[p] = "verified" =>
                      (Rejected("No code found") /\ otpStore' = otpStore)
          /\ okCount'[p] <= sendCount'[p]]_vars

\* C1 happens: a code was accepted and the same code, submitted again with
\* no send in between, was answered 'No code found'.
C1_Witness ==
    /\ lastResp.op = "verify-otp"
    /\ lastResp.id = nReq
    /\ lastResp.error = "No code found"
    /\ lastResp.phone \in Phones
    /\ removedBy[lastResp.phone] = "verified"
    /\ lastResp.code = Latest(lastResp.phone).code

\* C2: for a phone no /send-otp was ever handled for, every verify is
\* answered 'No code found' and leaves the store as it was.
C2_VerifyBeforeSend ==
    [][\A p \in Phones, c \in Codes :
          (Verified(p, c) /\ ~Sent(p)) =>
              (Rejected("No code found") /\ otpStore' = otpStore)]_vars

\* C2 happens: a verify for a never-sent phone was answered, while the store
\* holds another phone's entry.
C2_Witness ==
    /\ lastResp.op = "verify-otp"
    /\ lastResp.id = nReq
    /\ lastResp.phone \in Phones
    /\ lastResp.code \in Codes
    /\ ~Sent(lastResp.phone)
    /\ lastResp.error = "No code found"
    /\ DOMAIN otpStore # {}

\* C3: a verify handled more than 5 minutes after the send of a stored entry
\* is answered 'Code expired', whatever its code, and removes the entry;
\* the verifies after it, up to the next send, are answered 'No code found'.
C3_Expired ==
    [][\A p \in Phones, c \in Codes :
          Verified(p, c) =>
             /\ (MapHas(otpStore, p) /\ now > Latest(p).at + FiveMinutes)
                => (Rejected("Code expired") /\ ~MapHas(otpStore', p))
             /\ removedBy[p] = "expired" =>
                   (Rejected("No code found") /\ otpStore' = otpStore)]_vars

\* C3 happens: the entry's own code was submitted 1 ms after the 5 minutes
\* and answered 'Code expired'.
C3_Witness ==
    /\ lastResp.op = "verify-otp"
    /\ lastResp.id = nReq
    /\ lastResp.error = "Code expired"
    /\ lastResp.phone \in Phones
    /\ lastResp.code = Latest(lastResp.phone).code
    /\ now = Latest(lastResp.phone).at + FiveMinutes + 1

\* The code of the send before the latest one for phone p.
Resent(p) == sendCount[p] > 1
PreviousCode(p) == Get(prevCode[p])

\* C4 as stated: after a second send for a phone, a verify with the first
\* send's code (entry still stored and not expired) is answered
\* 'Invalid code'.
C4_OldCodeMismatch ==
    [][\A p \in Phones, c \in Codes :
          ( /\ Verified(p, c)
            /\ Resent(p)
            /\ c = PreviousCode(p)
            /\ MapHas(otpStore, p)
            /\ now <= Latest(p).at + FiveMinutes )
          => Rejected("Invalid code")]_vars

\* C4 amended: such a verify is answered 'Invalid code' and changes nothing
\* whenever the second send drew a code different from the first, and a
\* verify is accepted only for the code of the latest send.
C4_OldCodeMismatchUnlessRedrawn ==
    [][\A p \in Phones, c \in Codes :
          Verified(p, c) =>
             /\ ( /\ Resent(p)
                  /\ c = PreviousCode(p)
                  /\ c # Latest(p).code
                  /\ MapHas(otpStore, p)
                  /\ now <= Latest(p).at + FiveMinutes )
                => (Rejected("Invalid code") /\ otpStore' = otpStore)
             /\ Accepted => (Sent(p) /\ c = Latest(p).code)]_vars

\* C4 happens: after a resend with a different code the old code was answered
\* 'Invalid code'.
C4_Witness ==
    /\ lastResp.op = "verify-otp"
    /\ lastResp.id = nReq
    /\ lastResp.error = "Invalid code"
    /\ lastResp.phone \in Phones
    /\ Resent(lastResp.phone)
    /\ lastResp.code = PreviousCode(lastResp.phone)
    /\ lastResp.code # Latest(lastResp.phone).code

\* C5: a verify answered 'Invalid code' leaves the store unchanged; and as
\* long as the latest send's entry was neither accepted nor found expired, it
\* is stored, so that the right code submitted before expiry is accepted.
C5_MismatchKeepsEntry ==
    [][\A p \in Phones, c \in Codes :
          Verified(p, c) =>
             /\ Rejected("Invalid code") => otpStore' = otpStore
             /\ ( /\ Sent(p)
                  /\ removedBy[p] = "none"
                  /\ c = Latest(p).code
                  /\ now <= Latest(p).at + FiveMinutes )
                => (Accepted /\ MapHas(otpStore, p))]_vars

\* C5 happens: the right code was accepted after a mismatched attempt.
C5_Witness ==
    /\ lastResp.op = "verify-otp"
    /\ lastResp.id = nReq
    /\ lastResp.status = 200
    /\ mismatches[lastResp.phone] > 0

\* C6: a /send-otp handler waiting for the SMS provider has already written
\* its entry; when the provider fails the handler answers 500 'Failed to send
\* SMS' and leaves the store alone, and a verify with the code of a send whose
\* delivery failed, before expiry, is accepted.
C6_FailedDeliveryKeepsEntry ==
    [][/\ \A m \in inflight' \ inflight :
             /\ MapHas(otpStore', m.phone)
             /\ otpStore'[m.phone] = [code |-> m.code, expiresAt |-> now + FiveMinutes]
       /\ \A m \in inflight \ inflight' :
             lastResp'.status # 200 =>
                /\ lastResp' = Resp(m.id, "send-otp", m.phone, m.code, 500,
                                    "Failed to send SMS")
                /\ otpStore' = otpStore
       /\ \A p \in Phones, c \in Codes :
             ( /\ Verified(p, c)
               /\ delivery[p] = "failed"
               /\ removedBy[p] = "none"
               /\ c = Latest(p).code
               /\ now <= Latest(p).at + FiveMinutes )
             => Accepted]_vars

\* C6 happens: a code whose delivery failed was accepted.
C6_Witness ==
    /\ lastResp.op = "verify-otp"
    /\ lastResp.id = nReq
    /\ lastResp.status = 200
    /\ delivery[lastResp.phone] = "failed"

\* ------------------------------------------------------ facade claims

\* This step is a facade call of operation op.
Called(op) == nCalls' = nCalls + 1 /\ lastCall'.n = nCalls' /\ lastCall'.op = op

\* The rows a price list holds for grade g.
RowsOf(rows, g) == SelectSeq(rows, LAMBDA r : r.grade = g)
RowsNotOf(rows, g) == SelectSeq(rows, LAMBDA r : r.grade # g)
\* The local price list as a read finds it (the seed on first access).
LocalPrices(ls) == IF ls.prices = None THEN MOCK_SHRIMP_PRICES ELSE Get(ls.prices)
\* The local harvest requests as a read finds them.
LocalRequests(ls) == IF ls.harvest = None THEN <<>> ELSE Get(ls.harvest)

\* After an applied update of g to p, new holds one row for g, with price p
\* and the price old held for g as previousPrice (none if old had no row),
\* and the rows of the other grades are those of old.
Shifted(old, new, g, p) ==
    /\ Len(RowsOf(new, g)) = 1
    /\ RowsOf(new, g)[1].price = p
    /\ RowsOf(new, g)[1].previousPrice =
          IF RowsOf(old, g) # <<>> THEN Some(RowsOf(old, g)[1].price) ELSE None
    /\ RowsNotOf(new, g) = RowsNotOf(old, g)

\* C7: every applied price update of a grade stores the new price and shifts
\* the price held before into previousPrice: on the server when PATCH
\* /market-prices handles it, and in local storage when the facade's
\* fallback of updateMarketPrice applies it; so a sequence p1, ..., pn leaves
\* price = pk and previousPrice = p(k-1) after its k-th update.
C7_PriceShifts ==
    [][\A g \in Grades, p \in Prices :
          (Called("updateMarketPrice") /\ lastCall'.args = <<g, p>>) =>
             /\ lastCall'.remote = "up" => Shifted(pricesColl, pricesColl', g, p)
             /\ lastCall'.remote # "up" => pricesColl' = pricesColl
             /\ lastCall'.via = "fallback" =>
                   Shifted(LocalPrices(localStorage), LocalPrices(localStorage'), g, p)
             /\ lastCall'.via # "fallback" =>
                   LocalPrices(localStorage') = LocalPrices(localStorage)]_vars

\* C7 happens: the server's Premium row went to 550 and then to 600, and the
\* local Premium row went from the seeded 500 to 550.
C7_Witness ==
    /\ lastCall.op = "updateMarketPrice"
    /\ RowsOf(pricesColl, "Premium") # <<>>
    /\ RowsOf(pricesColl, "Premium")[1].price = 600
    /\ RowsOf(pricesColl, "Premium")[1].previousPrice = Some(550)
    /\ RowsOf(LocalPrices(localStorage), "Premium")[1].price = 550
    /\ RowsOf(LocalPrices(localStorage), "Premium")[1].previousPrice = Some(500)

\* How often x occurs in a list.
Count(rows, x) == Cardinality({i \in DOMAIN rows : rows[i] = x})
\* Two lists hold the same records, each as often.
SameRecords(a, b) ==
    /\ Len(a) = Len(b)
    /\ \A i \in DOMAIN a : Count(a, a[i]) = Count(b, a[i])

\* A stored record made from a submitted body.
StoredFrom(r, data) ==
    /\ r.farmerId = data.farmerId
    /\ r.grade = data.grade
    /\ r.quantity = data.quantity
    /\ r.status = "Pending Approval"
    /\ r.timestamp <= now
    /\ r.id.t = now
    /\ r.id.r \in Suffixes

\* C8: a submission the server accepts appends one record to its
\* collection, one the local fallback takes appends one to the local list;
\* the record has status 'Pending Approval' and a timestamp not after the
\* current time, whatever id, status and timestamp the body carried. A
\* listing by farmerId returns exactly the records of that farmerId in the
\* store it read (the server's or the local one).
C8_SubmitThenList ==
    [][/\ \A data \in Bodies :
             (Called("submitHarvestRequest") /\ lastCall'.args = <<data>>) =>
                /\ ( /\ lastCall'.remote = "up"
                     /\ data.farmerId # "" /\ data.grade # "" /\ data.quantity # 0 )
                   => /\ Len(harvestColl') = Len(harvestColl) + 1
                      /\ SubSeq(harvestColl', 1, Len(harvestColl)) = harvestColl
                      /\ StoredFrom(harvestColl'[Len(harvestColl')], data)
                /\ lastCall'.via = "fallback"
                   => /\ Len(LocalRequests(localStorage')) =
                            Len(LocalRequests(localStorage)) + 1
                      /\ SubSeq(LocalRequests(localStorage'), 1,
                                Len(LocalRequests(localStorage))) =
                            LocalRequests(localStorage)
                      /\ StoredFrom(LocalRequests(localStorage')[
                                       Len(LocalRequests(localStorage'))], data)
       /\ \A f \in FarmerIds :
             (Called("getHarvestRequestsForUser") /\ lastCall'.args = <<f>>) =>
                /\ lastCall'.via \in {"remote", "fallback"}
                /\ lastCall'.result.kind = "array"
                /\ LET store == IF lastCall'.via = "remote" THEN harvestColl
                                ELSE LocalRequests(localStorage)
                       mine == SelectSeq(store, LAMBDA r : r.farmerId = f)
                   IN SameRecords(lastCall'.result.value, mine)
                /\ UNCHANGED <<harvestColl, localStorage>>]_vars

\* C8 happens: the server holds requests of two farmers, one of them
\* submitted with forged fields, and a listing returned one farmer's only.
C8_Witness ==
    /\ lastCall.op = "getHarvestRequestsForUser"
    /\ lastCall.via = "remote"
    /\ lastCall.result.kind = "array"
    /\ Len(lastCall.result.value) = 1
    /\ Len(harvestColl) = 2
    /\ harvestColl[1].farmerId # harvestColl[2].farmerId
    /\ lastCall.result.value[1].status = "Pending Approval"

\* C9: with the base address unset (neither VITE_API_BASE_URL nor
\* VITE_API_BASE), getMarketPrices makes no fetch and resolves to the seeded
\* default price list.
C9_UnsetBaseNoFetch ==
    (lastCall.op = "getMarketPrices" /\ viteApiBaseUrl = "" /\ viteApiBase = "") =>
        /\ lastCall.fetches = 0
        /\ lastCall.via = "fallback"
        /\ lastCall.result = Val("array", LocalPrices(localStorage))

\* C10: when the remote answers HTTP 500, submitHarvestRequest sends one
\* request, runs its fallback once, appends one record to the local list and
\* resolves to that record: generated id, status 'Pending Approval', a
\* timestamp; the server's collection is untouched.
C10_SubmitFallsBack ==
    [][\A data \in Bodies :
          ( /\ Called("submitHarvestRequest")
            /\ lastCall'.args = <<data>>
            /\ lastCall'.remote = "http500" ) =>
             /\ lastCall'.fetches = 1
             /\ lastCall'.fallbacks = 1
             /\ lastCall'.via = "fallback"
             /\ lastCall'.result.kind = "request"
             /\ StoredFrom(lastCall'.result.value, data)
             /\ lastCall'.result.value.timestamp = now
             /\ LocalRequests(localStorage') =
                   Append(LocalRequests(localStorage), lastCall'.result.value)
             /\ harvestColl' = harvestColl]_vars

\* C10 happens: a second submission met HTTP 500 and was added to the local
\* list.
C10_Witness ==
    /\ lastCall.op = "submitHarvestRequest"
    /\ lastCall.remote = "http500"
    /\ lastCall.via = "fallback"
    /\ Len(LocalRequests(localStorage)) = 2
    /\ LocalRequests(localStorage)[2] = lastCall.result.value

\* The error messages the fallbacks throw of their own.
FallbackErrors == {"Price for grade not found", "Request not found"}
\* The first run of the last call's fallback threw.
FallbackThrew == lastCall.fb \in FallbackErrors

\* C11: whenever the fallback of a call throws, the call rejects, and the
\* error it rejects with is the error of the remote attempt, never the error
\* the fallback threw; on every path that runs the fallback.
C11_OriginalErrorRaised ==
    FallbackThrew =>
        /\ lastCall.via = "error"
        /\ lastCall.result.kind = "error"
        /\ lastCall.result.value \notin FallbackErrors

\* The last call resolved (to a remote or a fallback result).
Resolved == lastCall.via \in {"remote", "fallback"}

\* C12: updateMarketPrice resolves to the ShrimpPrice record of the grade,
\* holding the requested price, whether the response was the bare record of
\* the local fallback or the {success, price} envelope of the server.
C12_FixedReturnType ==
    (lastCall.op = "updateMarketPrice" /\ Resolved) =>
        /\ lastCall.result.kind = "price"
        /\ lastCall.result.value.grade = lastCall.args[1]
        /\ lastCall.result.value.price = lastCall.args[2]

\* A list of records is sorted by timestamp, newest first.
SortedDesc(rows) ==
    \A i, j \in DOMAIN rows : i < j => rows[i].timestamp >= rows[j].timestamp

\* C13: every list a listing of harvest requests resolves to
\* (getHarvestRequestsForUser, getAllHarvestRequests; from the server's GET
\* /harvest-requests, from the local fallback, or from the last-resort lookup
\* after a response of an unrecognised shape) is sorted by timestamp, newest
\* first.
C13_ListingsSorted ==
    ( /\ lastCall.op \in {"getHarvestRequestsForUser", "getAllHarvestRequests"}
      /\ Resolved ) =>
        /\ lastCall.result.kind = "array"
        /\ SortedDesc(lastCall.result.value)

\* Every record of old is still in new, at its place, the same but for its
\* status.
Kept(old, new) ==
    /\ Len(new) >= Len(old)
    /\ \A i \in DOMAIN old : [new[i] EXCEPT !.status = old[i].status] = old[i]
\* new is old with the status of one record of this id set to st.
OnlyStatusOf(old, new, id, st) ==
    \E i \in DOMAIN old :
        /\ old[i].id = id
        /\ new = [old EXCEPT ![i] = [old[i] EXCEPT !.status = st]]

\* C14: no operation removes a harvest request or changes anything of it but
\* its status, on the server or in local storage; a status update the server
\* applies sets the status of one request of that id to the given value and
\* leaves everything else in the collection as it was, and so does one the
\* local fallback applies to the local list; an update that is not applied
\* changes nothing.
C14_StatusOnly ==
    [][/\ Kept(harvestColl, harvestColl')
       /\ Kept(LocalRequests(localStorage), LocalRequests(localStorage'))
       /\ \A id \in RequestIds, st \in StatusInputs :
             (Called("updateHarvestRequestStatus") /\ lastCall'.args = <<id, st>>) =>
                /\ IF lastCall'.remote = "up" /\ lastCall'.status = 200
                   THEN OnlyStatusOf(harvestColl, harvestColl', id, st)
                   ELSE harvestColl' = harvestColl
                /\ IF lastCall'.fb = "returned"
                   THEN OnlyStatusOf(LocalRequests(localStorage),
                                     LocalRequests(localStorage'), id, st)
                   ELSE LocalRequests(localStorage') = LocalRequests(localStorage)]_vars

\* C14 happens: of two requests the server stores, the status of one was
\* updated to Approved and the other is still pending.
C14_Witness ==
    /\ lastCall.op = "updateHarvestRequestStatus"
    /\ lastCall.via = "remote"
    /\ lastCall.status = 200
    /\ Len(harvestColl) = 2
    /\ \E i, j \in DOMAIN harvestColl :
          /\ harvestColl[i].id = lastCall.args[1]
          /\ harvestColl[i].status = "Approved"
          /\ harvestColl[j].id # lastCall.args[1]
          /\ harvestColl[j].status = "Pending Approval"

\* The ids a list of requests holds.
IdsOf(rows) == {rows[i].id : i \in DOMAIN rows}

\* C15: a status update for an id the server does not store is answered 404
\* 'Request not found' and leaves the server's collection as it was; one
\* whose fallback runs for an id the local list does not hold has its
\* fallback throw 'Request not found' and leaves local storage as it was. No
\* record is created for the id.
C15_UnknownIdNotFound ==
    [][\A id \in RequestIds :
          /\ \A st \in Statuses :
                ( /\ Called("updateHarvestRequestStatus")
                  /\ lastCall'.args = <<id, st>>
                  /\ lastCall'.remote = "up"
                  /\ id \notin IdsOf(harvestColl) ) =>
                   /\ lastCall'.status = 404
                   /\ lastCall'.error = "Request not found"
                   /\ harvestColl' = harvestColl
          /\ \A st \in StatusInputs :
                ( /\ Called("updateHarvestRequestStatus")
                  /\ lastCall'.args = <<id, st>>
                  /\ lastCall'.fallbacks > 0
                  /\ id \notin IdsOf(LocalRequests(localStorage)) ) =>
                   /\ lastCall'.fb = "Request not found"
                   /\ lastCall'.via = "error"
                   /\ localStorage' = localStorage]_vars

\* C15 happens: the server stores a request, a status update named another
\* id and was answered 404, and the fallback did not find the id either.
C15_Witness ==
    /\ lastCall.op = "updateHarvestRequestStatus"
    /\ lastCall.remote = "up"
    /\ lastCall.status = 404
    /\ lastCall.fb = "Request not found"
    /\ harvestColl # <<>>
    /\ lastCall.args[1] \notin IdsOf(harvestColl)
    /\ LocalRequests(localStorage) # <<>>

\* The market status a store holds: open until one is written.
StoredStatus(item) == IF item = None THEN TRUE ELSE Get(item)

\* C16: the market status is one boolean per store, open until written and
\* then the value of the last write: a read leaves the stores as they are
\* and resolves to the boolean the store it reached holds (the server's
\* document, or the local item when the fallback ran); a write of isOpen
\* replaces the value of the store it reached and resolves to isOpen, for the
\* server's {success, status} envelope and for the fallback's bare boolean.
C16_MarketStatus ==
    [][/\ Called("getMarketStatus") =>
             /\ UNCHANGED <<appMeta, localStorage>>
             /\ lastCall'.remote = "up" =>
                   /\ lastCall'.via = "remote"
                   /\ lastCall'.result = Val("bool", StoredStatus(appMeta))
             /\ lastCall'.remote \in {"down", "http500", "notjson"} =>
                   /\ lastCall'.via = "fallback"
                   /\ lastCall'.result = Val("bool", StoredStatus(localStorage.status))
       /\ \A isOpen \in BOOLEAN :
             (Called("updateMarketStatus") /\ lastCall'.args = <<isOpen>>) =>
                /\ IF lastCall'.remote = "up"
                   THEN appMeta' = Some(isOpen) /\ lastCall'.via = "remote"
                   ELSE appMeta' = appMeta
                /\ IF lastCall'.remote \in {"down", "http500", "notjson"}
                   THEN localStorage'.status = Some(isOpen) /\ lastCall'.via = "fallback"
                   ELSE localStorage' = localStorage
                /\ lastCall'.remote # "oddshape" =>
                      lastCall'.result = Val("bool", isOpen)]_vars

\* C16 happens: closed was written to the server and open to local storage,
\* and a read that reached the server resolved to closed.
C16_Witness ==
    /\ lastCall.op = "getMarketStatus"
    /\ lastCall.via = "remote"
    /\ lastCall.result = Val("bool", FALSE)
    /\ appMeta = Some(FALSE)
    /\ localStorage.status = Some(TRUE)

\* C19: a facade call issues its request at most once and runs its fallback
\* at most once; it ends as a remote result, a fallback result or an error;
\* and its fallback runs exactly when the request failed, was answered with
\* a status outside 200..299, or was answered with a body that is not JSON.
C19_SingleAttempt ==
    lastCall.op # "none" =>
        /\ lastCall.fetches <= 1
        /\ lastCall.fallbacks <= 1
        /\ lastCall.via \in {"remote", "fallback", "error"}
        /\ lastCall.fallbacks >= 1 <=>
              \/ lastCall.remote \in {"down", "notjson"}
              \/ lastCall.status < 200
              \/ lastCall.status > 299

\* The price a list holds for grade g, if any.
PriceOf(rows, g) == IF RowsOf(rows, g) = <<>> THEN None ELSE Some(RowsOf(rows, g)[1].price)
\* Two price lists hold the same price for every grade.
PricesCorrespond(a, b) == \A g \in Grades : PriceOf(a, g) = PriceOf(b, g)
\* An HTTP status of success.
Is2xx(status) == status >= 200 /\ status <= 299

\* C20: the local fallback of an operation does what the server does. At
\* every call of updateMarketPrice, submitHarvestRequest or
\* updateHarvestRequestStatus made while the local store and the server's
\* store correspond, the server's handler and the fallback, each run on its
\* store with the arguments of the call, both succeed or both fail, and they
\* leave the stores corresponding.
C20_FallbackEquivalent ==
    [][/\ \A g \in GradeInputs, p \in Prices :
             ( /\ Called("updateMarketPrice")
               /\ lastCall'.args = <<g, p>>
               /\ PricesCorrespond(pricesColl, LocalPrices(localStorage)) ) =>
                LET srv == SrvPatchPrice(pricesColl, g, Some(p), now)
                    fb == FbUpdateMarketPrice(localStorage, g, p)
                IN /\ Is2xx(srv.resp.status) <=> ~fb.threw
                   /\ PricesCorrespond(srv.coll, LocalPrices(fb.ls))
       /\ \A data \in Bodies, suffix \in Suffixes :
             ( /\ Called("submitHarvestRequest")
               /\ lastCall'.args = <<data>>
               /\ harvestColl = LocalRequests(localStorage) ) =>
                LET srv == SrvPostHarvest(harvestColl, data, now, suffix)
                    fb == FbSubmitHarvestRequest(localStorage, data, now, suffix)
                IN /\ Is2xx(srv.resp.status) <=> ~fb.threw
                   /\ srv.coll = LocalRequests(fb.ls)
       /\ \A id \in RequestIds, st \in StatusInputs :
             ( /\ Called("updateHarvestRequestStatus")
               /\ lastCall'.args = <<id, st>>
               /\ harvestColl = LocalRequests(localStorage) ) =>
                LET srv == SrvPatchHarvest(harvestColl, id, st)
                    fb == FbUpdateHarvestRequestStatus(localStorage, id, st)
                IN /\ Is2xx(srv.resp.status) <=> ~fb.threw
                   /\ srv.coll = LocalRequests(fb.ls)]_vars

\* ------------------------------------------------- concurrency claims

\* C17 as stated: two verify requests for a phone that both carry the code
\* of its latest send, before it expires and with no send between them, can
\* both be accepted. The handler of /verify-otp runs from its read of the
\* entry to its response without a suspension point, so the server handles
\* the two one after the other, in either order: the statement is that the
\* second of them is accepted as the first was.
C17_DoubleAccept ==
    [][\A p \in Phones, c \in Codes :
          ( /\ Verified(p, c)
            /\ Sent(p)
            /\ c = Latest(p).code
            /\ now <= Latest(p).at + FiveMinutes
            /\ removedBy[p] = "verified" )
          => Accepted]_vars

\* C17 amended: every accepted verify finds the entry stored, with the code
\* it carries, and removes it in the same step; so of two verify requests
\* carrying the correct unexpired code, with no send between them, the one
\* handled first is accepted and the other is answered 'No code found'.
C17_AcceptConsumesEntry ==
    [][\A p \in Phones, c \in Codes :
          Verified(p, c) =>
             /\ Accepted =>
                   /\ MapHas(otpStore, p)
                   /\ otpStore[p].code = c
                   /\ ~MapHas(otpStore', p)
                   /\ removedBy[p] = "none"
                   /\ removedBy'[p] = "verified"
             /\ ( /\ Sent(p)
                  /\ c = Latest(p).code
                  /\ now <= Latest(p).at + FiveMinutes
                  /\ removedBy[p] = "verified" )
                => (Rejected("No code found") /\ okCount'[p] = okCount[p])]_vars

\* C17 happens: after one send, two verifies carried its code before it
\* expired; one was accepted and the last was answered 'No code found'.
C17_Witness ==
    /\ lastResp.op = "verify-otp"
    /\ lastResp.id = nReq
    /\ lastResp.phone \in Phones
    /\ sendCount[lastResp.phone] = 1
    /\ okCount[lastResp.phone] = 1
    /\ removedBy[lastResp.phone] = "verified"
    /\ lastResp.code = Latest(lastResp.phone).code
    /\ now <= Latest(lastResp.phone).at + FiveMinutes
    /\ lastResp.error = "No code found"

\* A send in flight whose entry a later send for its phone, in flight too,
\* has replaced.
Overwritten(m) == \E o \in inflight : o.phone = m.phone /\ o.id > m.id

\* C18 as stated: a send received for a phone while another send for it is
\* in flight leaves the phone's one entry holding its own code; the code of
\* the send it overwrote is not accepted afterwards; and a delivery that
\* completes leaves the store as it is.
C18_LastWriteWins ==
    [][/\ \A m \in inflight' \ inflight :
             (\E o \in inflight : o.phone = m.phone) =>
                /\ MapHas(otpStore', m.phone)
                /\ otpStore'[m.phone].code = m.code
       /\ \A m \in inflight, c \in Codes :
             (Overwritten(m) /\ Verified(m.phone, c) /\ c = m.code) => ~Accepted
       /\ \A m \in inflight \ inflight' : otpStore' = otpStore]_vars

\* C18 amended: the same, but the code of the overwritten send is refused
\* only when the later send drew another code; whatever is in flight, a
\* verify is accepted only for the code of the latest store write.
C18_LastWriteWinsUnlessRedrawn ==
    [][/\ \A m \in inflight' \ inflight :
             (\E o \in inflight : o.phone = m.phone) =>
                /\ MapHas(otpStore', m.phone)
                /\ otpStore'[m.phone].code = m.code
                /\ Get(latest'[m.phone]).code = m.code
       /\ \A m \in inflight, c \in Codes :
             ( /\ Overwritten(m)
               /\ Verified(m.phone, c)
               /\ c = m.code
               /\ c # Latest(m.phone).code ) => ~Accepted
       /\ \A p \in Phones, c \in Codes :
             (Verified(p, c) /\ Accepted) => c = Latest(p).code
       /\ \A m \in inflight \ inflight' : otpStore' = otpStore]_vars

\* C18 happens: two sends for a phone are in flight with different codes,
\* the store holds the later one's, and a verify with the earlier one's was
\* answered 'Invalid code'.
C18_Witness ==
    /\ lastResp.op = "verify-otp"
    /\ lastResp.id = nReq
    /\ lastResp.error = "Invalid code"
    /\ \E m, o \in inflight :
          /\ m.phone = lastResp.phone
          /\ o.phone = lastResp.phone
          /\ m.id < o.id
          /\ m.code = lastResp.code
          /\ o.code # m.code
          /\ otpStore[o.phone].code = o.code

\* ------------------------------------------------- read-your-writes claim

\* The request a resolved submitHarvestRequest call returned.
Submitted == lastCall.result.value

\* C22: once submitHarvestRequest has resolved with a request r, a later
\* getHarvestRequestsForUser(r.farmerId) or getAllHarvestRequests that
\* resolves contains r, whichever of the remote path or the local fallback
\* each of the two calls took. (Stated for the listing that follows the
\* submission directly.)
C22_ReadYourWrites ==
    [][( /\ lastCall.op = "submitHarvestRequest"
         /\ lastCall.via \in {"remote", "fallback"}
         /\ lastCall.result.kind = "request"
         /\ \/ Called("getAllHarvestRequests")
            \/ /\ Called("getHarvestRequestsForUser")
               /\ lastCall'.args = <<Submitted.farmerId>>
         /\ lastCall'.via \in {"remote", "fallback"} ) =>
            /\ lastCall'.result.kind = "array"
            /\ \E i \in DOMAIN lastCall'.result.value :
                  lastCall'.result.value[i] = Submitted]_vars

\* ------------------------------------------- concurrent price updates

\* C21: after every completed PATCH /market-prices for a grade, the stored
\* previousPrice of that grade equals the price that was stored for it
\* immediately before this update's write took effect (null if no row
\* existed), also when PATCH requests for the same grade interleave their
\* findOne and updateOne steps.
C21_PreviousIsPrior ==
    lastPatch.wrote =>
        LET i == FindGrade(pricesColl, lastPatch.grade)
        IN /\ i # 0
           /\ pricesColl[i].previousPrice = lastPatch.prior

\* ---------------------------------------------------- login screen claims

\* This step settles the send-otp request, or the verify-otp request.
SendSettles == IsSome(sendReq) /\ sendReq' = None
VerifySettles == IsSome(verifyReq) /\ verifyReq' = None

\* C23: onLoginSuccess(phone) is called only when a verify-otp response with
\* a success status and success = true arrives for that normalized phone;
\* the step becomes 'enterOtp' only when a send-otp response with a success
\* status arrives; a failed send or failed verify changes neither the step
\* nor the calls of onLoginSuccess; and isSending / isVerifying is false
\* once the corresponding request has settled, on success and on failure.
C23_LoginOnlyAfterSuccess ==
    [][/\ onLoginSuccess' # onLoginSuccess =>
             /\ VerifySettles
             /\ lastSettled'.req = "verify-otp"
             /\ lastSettled'.answer.kind = "json"
             /\ lastSettled'.answer.ok
             /\ lastSettled'.answer.success
             /\ lastSettled'.phone = Get(verifyReq).phone
             /\ onLoginSuccess' = Append(onLoginSuccess, Get(verifyReq).phone)
             /\ Get(verifyReq).phone \in {normalizePhone(t) : t \in PhoneTexts}
       /\ (step # "enterOtp" /\ step' = "enterOtp") =>
             /\ SendSettles
             /\ lastSettled'.req = "send-otp"
             /\ lastSettled'.answer.kind # "rejected"
             /\ lastSettled'.answer.ok
       /\ ( /\ SendSettles
            /\ lastSettled'.answer.kind = "rejected" \/ ~lastSettled'.answer.ok ) =>
             /\ step' = step
             /\ onLoginSuccess' = onLoginSuccess
       /\ ( /\ VerifySettles
            /\ ~( /\ lastSettled'.answer.kind = "json"
                  /\ lastSettled'.answer.ok
                  /\ lastSettled'.answer.success ) ) =>
             /\ step' = step
             /\ onLoginSuccess' = onLoginSuccess
       /\ SendSettles => ~isSending'
       /\ VerifySettles => ~isVerifying']_vars

\* C23 happens: a verify-otp request was answered with a success status and
\* success = true, onLoginSuccess was called once, with its phone, and no
\* request is awaited any more.
C23_Witness ==
    /\ Len(onLoginSuccess) = 1
    /\ lastSettled.req = "verify-otp"
    /\ lastSettled.answer = Answer("json", TRUE, TRUE, "")
    /\ onLoginSuccess[1] = lastSettled.phone
    /\ message = Some("Login successful. Welcome!")
    /\ step = "enterOtp"
    /\ ~isSending /\ ~isVerifying
    /\ sendReq = None /\ verifyReq = None

\* C24: the phone sent with every verify-otp request equals the phone of the
\* most recent send-otp request that succeeded, under every interleaving of
\* the user's events with the completion of send requests in flight.
C24_VerifiesSentPhone ==
    [][(verifyReq = None /\ IsSome(verifyReq')) =>
          /\ IsSome(sentTo)
          /\ Get(verifyReq').phone = Get(sentTo)]_vars

====
